---------------------------- MODULE Spec2Model ----------------------------
(***************************************************************************)
(* A model of domCrawler.js (version 1.4.0, src/domCrawler.js lines        *)
(* 204-453): filtered DOM traversal, the rule-based text splitting engine  *)
(* and the text-node replacement driver.                                   *)
(*                                                                         *)
(* JavaScript strings are sequences of one-character strings.  Offsets     *)
(* are 0-based as in the source; SubSeq is 1-based, so                     *)
(* str.substring(a, b) is SubSeq(str, a + 1, b).                           *)
(***************************************************************************)
EXTENDS Integers, Sequences, FiniteSets, TLC

VARIABLES
    pc,          \* control position of the call being modelled
    \* ---- domCrawler.strSplitAndJoin(str, separator, replacer)
    input,       \* the string the call received (str is cut down by the loop)
    str,         \* the local `str`
    separator,   \* the pattern: string, RegExp or anything else
    replacer,    \* the replacer
    result,      \* the local `result`
    lastIndex,   \* separator.lastIndex (state of the RegExp object)
    i,           \* loop index of the splice loop / of the fragment loop
    calls,       \* how many times the replacer closure has been invoked
    \* ---- domCrawler.strSplitAndJoinByRules(str, rules)
    rules,       \* the `rules` argument
    splitted,    \* the accumulator of the reduce
    ruleNo,      \* 1-based position of the reduce in the rule list
    \* ---- domCrawler(root, accept, reject) and the tree
    tree,        \* the document
    root, accept, reject,
    current,     \* TreeWalker.currentNode
    nodes,       \* the array being returned
    \* ---- domCrawler.replaceTexts(...)
    textNodes,   \* the snapshot taken by getTextNodes
    idx,         \* the loop index `i` of replaceTexts
    delay, size, wrapper, callback,
    tree0,       \* the tree as it was when replaceTexts was called (observation only)
    trace        \* history of what the pass did (observation only)

vars == <<pc, input, str, separator, replacer, result, lastIndex, i, calls,
          rules, splitted, ruleNo, tree, root, accept, reject, current, nodes,
          textNodes, idx, delay, size, wrapper, callback, tree0, trace>>

splitVars == <<input, str, separator, replacer, result, lastIndex, i, calls>>
rulesVars == <<rules, splitted, ruleNo>>
crawlVars == <<tree, root, accept, reject, current, nodes>>
passVars  == <<textNodes, idx, delay, size, wrapper, callback, tree0, trace>>

\* what a strSplitAndJoin call leaves alone
notSplit == <<rulesVars, crawlVars, passVars>>

---------------------------------------------------------------------------
(* Bounds of the model.                                                    *)

\* longest input string drawn from the alphabet
MaxLen == 3
\* longest rule list
MaxRules == 2

\* A run of the regex loop that makes progress pushes at most 2 * length
\* fragments; a loop that does not is cut off after this many.
MaxFragments == 2 * MaxLen + 4

Alphabet == {"a", "b"}

Strings(n) == UNION {[1..k -> Alphabet] : k \in 0..n}

\* spec.md 8, "Literal worked example": "a,b,,c"
ExampleStr == <<"a", ",", "b", ",", ",", "c">>

Min(a, b) == IF a < b THEN a ELSE b

\* F applied to the value of e, which is computed once
With(e, F(_)) == CHOOSE x \in {F(v) : v \in {e}} : TRUE

\* str.substring(a, b) for 0 <= a <= b
Substring(s, a, b) == SubSeq(s, a + 1, Min(b, Len(s)))

\* str.substring(a)
Tail0(s, a) == SubSeq(s, a + 1, Len(s))

\* String.prototype.toUpperCase on the model's characters
UpperChar(c) == CASE c = "a" -> "A" [] c = "b" -> "B" [] c = "c" -> "C" [] OTHER -> c
ToUpperCase(s) == [k \in 1..Len(s) |-> UpperChar(s[k])]

---------------------------------------------------------------------------
(* Fragments.  A fragment is what an element of the returned array is:     *)
(*   t    typeof / class of the value: "string", "number", "object",       *)
(*        "node"                                                           *)
(*   v    the characters of a string; the text content of a node           *)
(*   tag  the tag name of a node (an element with one text child)          *)
(*   num  the value of a number                                            *)
(*   args what a function replacer was called with, kept by the replacers  *)
(*        that return an object built from their arguments                 *)
(* and three fields that only observe the computation and that no          *)
(* definition modelling code reads:                                        *)
(*   cov  the text of the scanned string this fragment stands for          *)
(*   at   offset of the match in the string given to strSplitAndJoin       *)
(*   by   0 for text of the original string, r for what rule r's replacer  *)
(*        produced (or a piece of it)                                      *)

NoArgs == [m |-> <<>>, g |-> <<>>, offset |-> -1, string |-> <<>>, argc |-> 0]

Text(s) == [t |-> "string", v |-> s, tag |-> "", num |-> 0, args |-> NoArgs,
            cov |-> s, at |-> -1, by |-> 0]

IsString(frag) == frag.t = "string"

---------------------------------------------------------------------------
(* Patterns.  A RegExp of the shape  ^? (?<=behind)? (group)? body star*   *)
(* with an optional g flag; a literal string; or a value that is neither.  *)

RegExp(anchor, behind, group, body, star, global) ==
    [type |-> "regexp", anchor |-> anchor, behind |-> behind, group |-> group,
     body |-> body, star |-> star, global |-> global, lit |-> <<>>]

Literal(s) == [type |-> "string", anchor |-> FALSE, behind |-> <<>>, group |-> <<>>,
               body |-> <<>>, star |-> <<>>, global |-> FALSE, lit |-> s]

\* a number, an object, undefined: typeof is not "string", not a RegExp
NotAPattern == [type |-> "other", anchor |-> FALSE, behind |-> <<>>, group |-> <<>>,
                body |-> <<>>, star |-> <<>>, global |-> FALSE, lit |-> <<>>]

ReA       == RegExp(FALSE, <<>>, <<>>, <<"a">>, <<>>, FALSE)       \* /a/
ReAg      == RegExp(FALSE, <<>>, <<>>, <<"a">>, <<>>, TRUE)        \* /a/g
ReAB      == RegExp(FALSE, <<>>, <<>>, <<"a", "b">>, <<>>, FALSE)  \* /ab/
ReStartA  == RegExp(TRUE, <<>>, <<>>, <<"a">>, <<>>, FALSE)        \* /^a/
ReAStar   == RegExp(FALSE, <<>>, <<>>, <<>>, <<"a">>, FALSE)       \* /a*/
ReOptAB   == RegExp(FALSE, <<>>, <<"a">>, <<"b">>, <<>>, FALSE)    \* /(a)?b/
ReBehindA == RegExp(FALSE, <<"a">>, <<>>, <<"a">>, <<>>, FALSE)    \* /(?<=a)a/
ReBehind0 == RegExp(FALSE, <<"a">>, <<>>, <<>>, <<>>, TRUE)        \* /(?<=a)/g
ReBAStar  == RegExp(FALSE, <<>>, <<>>, <<"b">>, <<"a">>, FALSE)     \* /ba*/

RegExps == {ReA, ReAg, ReAB, ReStartA, ReAStar, ReOptAB, ReBehindA, ReBehind0, ReBAStar}

Literals == {Literal(<<>>), Literal(<<"a">>), Literal(<<"a", "b">>), Literal(<<"b">>)}

PrefixAt(s, k, w) == k + Len(w) <= Len(s) /\ SubSeq(s, k + 1, k + Len(w)) = w

\* how many copies of the one-character string c start at offset k
RECURSIVE StarLen(_, _, _)
StarLen(s, k, c) ==
    IF c # <<>> /\ PrefixAt(s, k, c) THEN 1 + StarLen(s, k + 1, c) ELSE 0

\* the context conditions: ^ and the lookbehind
ContextOk(re, s, k) ==
    /\ re.anchor => k = 0
    /\ re.behind # <<>> =>
          k >= Len(re.behind) /\ SubSeq(s, k - Len(re.behind) + 1, k) = re.behind

\* The match of re starting exactly at offset k: its length and whether the
\* optional group took part; len = -1 when there is none.  The optional
\* group is greedy: it is tried first, and given up when the body fails.
MatchAt(re, s, k) ==
    IF ~ContextOk(re, s, k) THEN [len |-> -1, grp |-> FALSE]
    ELSE IF re.group # <<>> /\ PrefixAt(s, k, re.group \o re.body)
    THEN [len |-> Len(re.group) + Len(re.body)
                    + StarLen(s, k + Len(re.group) + Len(re.body), re.star),
          grp |-> TRUE]
    ELSE IF PrefixAt(s, k, re.body)
    THEN [len |-> Len(re.body) + StarLen(s, k + Len(re.body), re.star), grp |-> FALSE]
    ELSE [len |-> -1, grp |-> FALSE]

\* RegExp.prototype.exec: the leftmost match at or after the start offset,
\* which is lastIndex for a global RegExp and 0 otherwise.  index = -1 is
\* the null result.  `last` is the lastIndex exec leaves behind.
Exec(re, s, li) ==
    LET from == IF re.global THEN li ELSE 0
        hits == {k \in from..Len(s) : MatchAt(re, s, k).len >= 0}
    IN  IF hits = {}
        THEN [index |-> -1, m |-> <<>>, g |-> <<>>, last |-> IF re.global THEN 0 ELSE li]
        ELSE LET k  == CHOOSE x \in hits : \A y \in hits : x <= y
                 ma == MatchAt(re, s, k)
             IN  [index |-> k,
                  m     |-> SubSeq(s, k + 1, k + ma.len),
                  g     |-> IF re.group = <<>> THEN <<>>
                            ELSE <<[def |-> ma.grp, v |-> IF ma.grp THEN re.group ELSE <<>>]>>,
                  last  |-> IF re.global THEN k + ma.len ELSE li]

---------------------------------------------------------------------------
(* Replacers.  kind is what the caller passed:                             *)
(*   "string"  a fixed string v              (index.html:52)               *)
(*   "value"   another fixed value, an object                              *)
(*   "node"    a Node with text content v: cloned per match (index.html:55)*)
(*   "upper"   str => str.toUpperCase()      (index.html:58)               *)
(*   "args"    a function returning an object built from its arguments     *)
(*             (index.html:89)                                             *)
(*   "count"   a function returning how often it has been called           *)
(*   "throw"   a function that throws                                      *)

Replacer(kind, v) == [kind |-> kind, v |-> v]

Replacers == {Replacer("string", <<"b", "a">>), Replacer("value", <<>>),
              Replacer("node", <<"a">>), Replacer("upper", <<>>),
              Replacer("args", <<>>), Replacer("count", <<>>),
              Replacer("throw", <<>>)}

Throws(rep) == rep.kind = "throw"

\* The value the (normalised) replacer returns when called with `args` as
\* its n-th invocation; cov and at record which match it was called for.
Payload(rep, args, n, cov, at) ==
    LET base == [t |-> "object", v |-> <<>>, tag |-> "", num |-> 0, args |-> NoArgs,
                 cov |-> cov, at |-> at, by |-> 0]
    IN  CASE rep.kind = "string" -> [base EXCEPT !.t = "string", !.v = rep.v]
          [] rep.kind = "value"  -> base
          [] rep.kind = "node"   -> [base EXCEPT !.t = "node", !.tag = "EM", !.v = rep.v]
          [] rep.kind = "upper"  -> [base EXCEPT !.t = "string", !.v = ToUpperCase(args.m)]
          [] rep.kind = "args"   -> [base EXCEPT !.args = args]
          [] rep.kind = "count"  -> [base EXCEPT !.t = "number", !.num = n]
          [] OTHER               -> base

\* replacer(separator): one argument
LiteralArgs(sep) == [m |-> sep, g |-> <<>>, offset |-> -1, string |-> <<>>, argc |-> 1]

\* replacer.call(str, ...match, match.index, str)
MatchArgs(match, s) ==
    [m |-> match.m, g |-> match.g, offset |-> match.index, string |-> s,
     argc |-> 1 + Len(match.g) + 2]

---------------------------------------------------------------------------
(* String.prototype.split(separator) with a string separator and no limit  *)
(* (ECMAScript: SplitMatcher loop).                                        *)

\* SplitLoop resuming one character after the start of a separator instead
\* of behind it
RECURSIVE SplitLoopResumesInside(_, _, _, _, _)
SplitLoopResumesInside(s, sep, p, q, acc) ==
    IF q >= Len(s) THEN Append(acc, Tail0(s, p))
    ELSE IF ~PrefixAt(s, q, sep) THEN SplitLoopResumesInside(s, sep, p, q + 1, acc)
    ELSE IF q + Len(sep) = p THEN SplitLoopResumesInside(s, sep, p, q + 1, acc)
    ELSE SplitLoopResumesInside(s, sep, q + 1, q + 1, Append(acc, Substring(s, p, q)))

RECURSIVE SplitLoop(_, _, _, _, _)
SplitLoop(s, sep, p, q, acc) ==
    IF q >= Len(s) THEN Append(acc, Tail0(s, p))
    ELSE IF ~PrefixAt(s, q, sep) THEN SplitLoop(s, sep, p, q + 1, acc)
    ELSE IF q + Len(sep) = p THEN SplitLoop(s, sep, p, q + 1, acc)
    ELSE SplitLoop(s, sep, q + Len(sep), q + Len(sep), Append(acc, Substring(s, p, q)))

Split(s, sep) ==
    IF Len(s) = 0
    THEN IF sep = <<>> THEN <<>> ELSE <<s>>
    ELSE SplitLoop(s, sep, 0, 0, <<>>)

\* result.splice(k, 0, x)
InsertAt(seq, k, x) == SubSeq(seq, 1, k) \o <<x>> \o SubSeq(seq, k + 1, Len(seq))

---------------------------------------------------------------------------
(* domCrawler.strSplitAndJoin, src/domCrawler.js:293-317.                  *)
(* A call ends in one of three ways: it returns the array, it throws, or   *)
(* its while loop never ends ("hang").                                     *)

Outcome(status, value, n) == [status |-> status, value |-> value, calls |-> n]

\* offset in the scanned string of the separator that goes in front of
\* piece k (0-based), while pieces 0..k-1 are still bare strings
OffsetOfPiece(res, k, sep) ==
    LET RECURSIVE Sum(_)
        Sum(j) == IF j = 0 THEN 0 ELSE Len(res[j].v) + Sum(j - 1)
    IN  Sum(k) + (k - 1) * Len(sep)

\* line 303, one iteration: result.splice(i, 0, replacer(separator))
SpliceBody(res, sep, rep, k, n) ==
    InsertAt(res, k, Payload(rep, LiteralArgs(sep), n + 1, sep, OffsetOfPiece(res, k, sep)))

\* lines 302-304: for(let i = result.length - 1; i > 0; --i)
RECURSIVE SpliceLoop(_, _, _, _, _)
SpliceLoop(res, sep, rep, k, n) ==
    IF k <= 0 THEN Outcome("return", res, n)
    ELSE IF Throws(rep) THEN Outcome("throw", <<>>, n + 1)
    ELSE With(SpliceBody(res, sep, rep, k, n),
              LAMBDA spliced : SpliceLoop(spliced, sep, rep, k - 1, n + 1))

\* line 300: const result = str.split(separator)
SplitPieces(s, sep) == LET ps == Split(s, sep) IN [k \in 1..Len(ps) |-> Text(ps[k])]

\* line 311: what one match pushes; `base` is how much of the scanned
\* string the loop has cut off already (used for the `at` record only)
MatchPush(s, match, rep, n, base) ==
    <<Text(Substring(s, 0, match.index)),
      Payload(rep, MatchArgs(match, s), n + 1, match.m, base + match.index)>>

\* line 312: str = str.substring(match.index + match[0].length)
MatchRest(s, match) == Tail0(s, match.index + Len(match.m))

\* lines 310-316.  lastIndex is 0 at every exec (lines 309 and 313).  An
\* empty match at offset 0 leaves str and lastIndex as they were, so the
\* same match is found again, for ever.
RECURSIVE ExecLoop(_, _, _, _, _, _)
ExecLoop(s, re, rep, res, n, base) ==
    With(Exec(re, s, 0), LAMBDA match :
        IF match.index = -1 THEN Outcome("return", Append(res, Text(s)), n)
        ELSE IF Throws(rep) THEN Outcome("throw", <<>>, n + 1)
        ELSE IF match.index + Len(match.m) = 0 THEN Outcome("hang", <<>>, n)
        ELSE With(<<MatchRest(s, match), res \o MatchPush(s, match, rep, n, base)>>,
                  LAMBDA next : ExecLoop(next[1], re, rep, next[2], n + 1,
                                         base + match.index + Len(match.m))))

\* n is the number of invocations the replacer closure has seen before
StrSplitAndJoin(s, sep, rep, n) ==
    CASE sep.type = "string" ->
           With(SplitPieces(s, sep.lit),
                LAMBDA res : SpliceLoop(res, sep.lit, rep, Len(res) - 1, n))
      [] sep.type = "regexp" -> ExecLoop(s, sep, rep, <<>>, n, 0)
      [] OTHER -> Outcome("throw", <<>>, n)

---------------------------------------------------------------------------
(* The same function, one loop iteration per step.                         *)

Separators == Literals \cup {Literal(<<",">>)} \cup RegExps \cup {NotAPattern}

SplitInit ==
    /\ pc = "strSplitAndJoin"
    /\ input \in Strings(MaxLen) \cup {ExampleStr}
    /\ str = input
    /\ separator \in Separators
    /\ replacer \in Replacers \cup {Replacer("string", <<"|">>)}
    /\ result = <<>>
    \* a global RegExp keeps the lastIndex its previous use left
    /\ lastIndex \in IF separator.global THEN 0..MaxLen ELSE {0}
    /\ i = 0
    /\ calls = 0

\* lines 294-309: up to the first loop test
Enter ==
    /\ pc = "strSplitAndJoin"
    /\ CASE separator.type = "string" ->
              /\ result' = SplitPieces(str, separator.lit)
              /\ i' = Len(result') - 1
              /\ pc' = "splice"
              /\ UNCHANGED lastIndex
         [] separator.type = "regexp" ->
              /\ result' = <<>>
              /\ lastIndex' = 0
              /\ pc' = "exec"
              /\ UNCHANGED i
         [] OTHER ->
              /\ pc' = "throw"
              /\ UNCHANGED <<result, lastIndex, i>>
    /\ UNCHANGED <<input, str, separator, replacer, calls, notSplit>>

\* lines 302-303, one iteration
Splice ==
    /\ pc = "splice"
    /\ i > 0
    /\ calls' = calls + 1
    /\ IF Throws(replacer)
       THEN pc' = "throw" /\ UNCHANGED <<result, i>>
       ELSE /\ result' = SpliceBody(result, separator.lit, replacer, i, calls)
            /\ i' = i - 1
            /\ pc' = pc
    /\ UNCHANGED <<input, str, separator, replacer, lastIndex, notSplit>>

\* line 304
ReturnLiteral ==
    /\ pc = "splice"
    /\ i <= 0
    /\ pc' = "return"
    /\ UNCHANGED <<splitVars, notSplit>>

\* lines 310-313, one iteration with a match
ExecMatch ==
    /\ pc = "exec"
    /\ Len(result) < MaxFragments
    /\ LET match == Exec(separator, str, lastIndex)
       IN  /\ match.index # -1
           /\ calls' = calls + 1
           /\ IF Throws(replacer)
              THEN /\ pc' = "throw"
                   /\ lastIndex' = match.last
                   /\ UNCHANGED <<result, str>>
              ELSE /\ result' = result \o MatchPush(str, match, replacer, calls,
                                                    Len(input) - Len(str))
                   /\ str' = MatchRest(str, match)
                   /\ lastIndex' = 0
                   /\ pc' = pc
    /\ UNCHANGED <<input, separator, replacer, i, notSplit>>

\* lines 310, 315-316: exec returns null
ExecEnd ==
    /\ pc = "exec"
    /\ LET match == Exec(separator, str, lastIndex)
       IN  /\ match.index = -1
           /\ lastIndex' = match.last
    /\ result' = Append(result, Text(str))
    /\ pc' = "return"
    /\ UNCHANGED <<input, str, separator, replacer, i, calls, notSplit>>

SplitNext == Enter \/ Splice \/ ReturnLiteral \/ ExecMatch \/ ExecEnd

---------------------------------------------------------------------------
(* domCrawler.strSplitAndJoinByRules, src/domCrawler.js:327-339.           *)

\* minLength = 0 stands for every falsy minLength (absent, undefined, 0)
Rule(pattern, rep, minLength) ==
    [pattern |-> pattern, replacer |-> rep, minLength |-> minLength]

\* the `rules` argument: an Array of rules, or one rule object
RulesArray(items) == [array |-> TRUE, items |-> items, one |-> Rule(NotAPattern, Replacer("value", <<>>), 0)]
OneRule(rule) == [array |-> FALSE, items |-> <<>>, one |-> rule]

\* line 328: if(!(rules instanceof Array)) rules = [rules]
NormaliseRules(arg) == IF arg.array THEN arg.items ELSE <<arg.one>>

\* Skipped without the minLength gate
SkippedUngated(frag, rule) == ~IsString(frag)

\* Skipped with the length gate one character off
SkippedOneShort(frag, rule) ==
    \/ ~IsString(frag)
    \/ (rule.minLength # 0 /\ Len(frag.v) + 1 < rule.minLength)

\* line 332: the two gates in front of the scan
Skipped(frag, rule) ==
    \/ ~IsString(frag)
    \/ (rule.minLength # 0 /\ Len(frag.v) < rule.minLength)

\* The `by` record of the debris: text pieces keep the origin of the
\* fragment they were cut from, payloads are rule r's.
Retag(debris, frag, r) ==
    [k \in 1..Len(debris) |->
        IF debris[k].at = -1 THEN [debris[k] EXCEPT !.by = frag.by]
                             ELSE [debris[k] EXCEPT !.by = r]]

\* splitted.splice(k, 1, ...debris), k 0-based
SpliceIn(spl, k, debris) == SubSeq(spl, 1, k) \o debris \o SubSeq(spl, k + 2, Len(spl))

\* lines 331-335: the loop body for fragment k (0-based) under rule r
FragBody(spl, rule, r, k, n) ==
    LET frag == spl[k + 1]
    IN  IF Skipped(frag, rule) THEN Outcome("return", spl, n)
        ELSE With(StrSplitAndJoin(frag.v, rule.pattern, rule.replacer, n), LAMBDA o :
                 IF o.status # "return" THEN Outcome(o.status, spl, o.calls)
                 ELSE IF Len(o.value) = 1 /\ o.value[1].v = frag.v
                 THEN Outcome("return", spl, o.calls)
                 ELSE Outcome("return", SpliceIn(spl, k, Retag(o.value, frag, r)), o.calls))

\* line 330: for(let i = splitted.length - 1; i >= 0; --i)
RECURSIVE FragLoop(_, _, _, _, _)
FragLoop(spl, rule, r, k, n) ==
    IF k < 0 THEN Outcome("return", spl, n)
    ELSE With(FragBody(spl, rule, r, k, n), LAMBDA o :
             IF o.status # "return" THEN o
             ELSE FragLoop(o.value, rule, r, k - 1, o.calls))

\* line 329: rules.reduce(..., [str]); every rule has its own replacer
RECURSIVE RulesLoop(_, _, _)
RulesLoop(spl, rs, r) ==
    IF r > Len(rs) THEN Outcome("return", spl, 0)
    ELSE With(FragLoop(spl, rs[r], r, Len(spl) - 1, 0), LAMBDA o :
             IF o.status # "return" THEN o
             ELSE RulesLoop(o.value, rs, r + 1))

StrSplitAndJoinByRules(s, arg) == RulesLoop(<<Text(s)>>, NormaliseRules(arg), 1)

---------------------------------------------------------------------------
(* The same function, one fragment per step.                               *)

RuleSet ==
    {Rule(Literal(<<"a">>), Replacer("string", <<"b", "a">>), 0),
     Rule(Literal(<<"b">>), Replacer("node", <<"a">>), 0),
     Rule(Literal(<<"a", "b">>), Replacer("count", <<>>), 3),
     Rule(Literal(<<"a">>), Replacer("count", <<>>), 0),
     Rule(Literal(<<>>), Replacer("value", <<>>), 0),
     Rule(ReA, Replacer("upper", <<>>), 0),
     Rule(ReAg, Replacer("count", <<>>), 2),
     Rule(ReOptAB, Replacer("args", <<>>), 0),
     Rule(ReStartA, Replacer("throw", <<>>), 0),
     Rule(ReAStar, Replacer("value", <<>>), 0),
     Rule(NotAPattern, Replacer("value", <<>>), 0)}

RuleLists(n) == UNION {[1..k -> RuleSet] : k \in 0..n}

RulesArgs == {RulesArray(rs) : rs \in RuleLists(MaxRules)} \cup {OneRule(r) : r \in RuleSet}

RulesInit ==
    /\ pc = "strSplitAndJoinByRules"
    /\ input \in Strings(MaxLen)
    /\ rules \in RulesArgs
    /\ splitted = <<>>
    /\ ruleNo = 0
    /\ i = 0
    /\ calls = 0

notRules == <<str, separator, replacer, result, lastIndex, crawlVars, passVars>>

\* lines 328-329: the reduce starts from [str]
RulesEnter ==
    /\ pc = "strSplitAndJoinByRules"
    /\ rules' = RulesArray(NormaliseRules(rules))
    /\ splitted' = <<Text(input)>>
    /\ ruleNo' = 1
    /\ i' = 0
    /\ pc' = "rule"
    /\ UNCHANGED <<input, calls, notRules>>

\* lines 331-335, one iteration of the for loop
FragStep ==
    /\ pc = "rule"
    /\ ruleNo <= Len(rules.items)
    /\ i >= 0
    /\ \E o \in {FragBody(splitted, rules.items[ruleNo], ruleNo, i, calls)} :
           /\ pc' = IF o.status = "return" THEN pc ELSE o.status
           /\ splitted' = o.value
           /\ calls' = o.calls
           /\ i' = IF o.status = "return" THEN i - 1 ELSE i
    /\ UNCHANGED <<input, rules, ruleNo, notRules>>

\* line 337: return splitted, and the reduce goes to the next rule
RuleDone ==
    /\ pc = "rule"
    /\ ruleNo <= Len(rules.items)
    /\ i < 0
    /\ ruleNo' = ruleNo + 1
    /\ i' = Len(splitted) - 1
    /\ calls' = 0
    /\ UNCHANGED <<pc, input, rules, splitted, notRules>>

\* line 329: the reduce is through
RulesReturn ==
    /\ pc = "rule"
    /\ ruleNo > Len(rules.items)
    /\ pc' = "return"
    /\ UNCHANGED <<input, rules, splitted, ruleNo, i, calls, notRules>>

RulesNext == RulesEnter \/ FragStep \/ RuleDone \/ RulesReturn

---------------------------------------------------------------------------
(* The document.  Nodes are numbers; a tree gives every node its child     *)
(* list, its nodeType ("element", "text", "comment"), its tagName (""      *)
(* for a node that has none) and its text (for text nodes).                *)

Null == -1

Nodes(t) == DOMAIN t.kids

Range(seq) == {seq[k] : k \in 1..Len(seq)}

IndexOf(seq, x) == CHOOSE k \in 1..Len(seq) : seq[k] = x

\* Node.parentNode
Parent(t, n) ==
    IF \E p \in Nodes(t) : n \in Range(t.kids[p])
    THEN CHOOSE p \in Nodes(t) : n \in Range(t.kids[p])
    ELSE Null

\* Node.nextSibling
NextSibling(t, n) ==
    LET p == Parent(t, n)
    IN  IF p = Null THEN Null
        ELSE LET k == IndexOf(t.kids[p], n)
             IN  IF k < Len(t.kids[p]) THEN t.kids[p][k + 1] ELSE Null

\* n and everything below it, in document order
RECURSIVE PreOrder(_, _)
PreOrder(t, n) ==
    LET RECURSIVE Over(_)
        Over(ks) == IF ks = <<>> THEN <<>> ELSE PreOrder(t, Head(ks)) \o Over(Tail(ks))
    IN  <<n>> \o Over(t.kids[n])

\* Node.contains: a is b or an ancestor of b
Contains(t, a, b) == b \in Range(PreOrder(t, a))

\* seq.filter(x => x \in set)
Filter(seq, set) == SelectSeq(seq, LAMBDA x : x \in set)

---------------------------------------------------------------------------
(* Filters: what `accept` and `reject` may be.                             *)
(*   "function"  a predicate; set = the nodes it returns true for          *)
(*   "selector"  a CSS selector string; set = the elements of the          *)
(*               document it matches                                       *)
(*   "tags"      an array of tag names, in any letter case                 *)
(*   "invalid"   anything else (a number)                                  *)

Fn(set)       == [kind |-> "function", set |-> set, tags |-> {}]
Selector(set) == [kind |-> "selector", set |-> set, tags |-> {}]
Tags(tags)    == [kind |-> "tags", set |-> {}, tags |-> tags]
Invalid       == [kind |-> "invalid", set |-> {}, tags |-> {}]

\* String.prototype.toUpperCase on the model's tag names
UpperTag(x) ==
    CASE x = "div" -> "DIV" [] x = "span" -> "SPAN" [] x = "b" -> "B"
      [] x = "script" -> "SCRIPT" [] x = "style" -> "STYLE" [] x = "em" -> "EM"
      [] x = "a" -> "A" [] OTHER -> x

\* root.querySelectorAll(f): descendants of root, elements only, in
\* document order.  An array has been joined with "," (lines 228-229): a
\* list of type selectors, which match tag names whatever the letter case.
QuerySelectorAll(t, r, f) ==
    LET below == Tail(PreOrder(t, r))
        hit   == {n \in Range(below) :
                    /\ t.type[n] = "element"
                    /\ IF f.kind = "tags"
                       THEN t.tag[n] \in {UpperTag(x) : x \in f.tags}
                       ELSE n \in f.set}
    IN  Filter(below, hit)

\* querySelectorAll throws a SyntaxError: a number is no selector, and an
\* empty array joins to the empty string
BadSelector(f) == f.kind = "invalid" \/ (f.kind = "tags" /\ f.tags = {})

\* lines 250-261: parseSelector throws a TypeError
ParseThrows(f) == f.kind = "invalid"

\* lines 250-259: the predicate parseSelector returns, applied to node n
Parsed(t, r, f, n) ==
    CASE f.kind = "function" -> n \in f.set
      [] f.kind = "selector" -> n \in Range(QuerySelectorAll(t, r, f))
      [] f.kind = "tags"     -> t.tag[n] \in {UpperTag(x) : x \in f.tags}
      [] OTHER               -> FALSE

\* acceptNode answering FILTER_REJECT where it should answer FILTER_SKIP
AcceptNodeRejectsUnaccepted(t, r, acc, rej, n) ==
    IF Parsed(t, r, rej, n) THEN "reject"
    ELSE IF Parsed(t, r, acc, n) THEN "accept"
    ELSE "reject"

\* lines 238-242: filter.acceptNode
AcceptNode(t, r, acc, rej, n) ==
    IF Parsed(t, r, rej, n) THEN "reject"
    ELSE IF Parsed(t, r, acc, n) THEN "accept"
    ELSE "skip"

\* TreeWalker.nextNode (DOM standard), whatToShow = SHOW_ALL: Descend is
\* the first-child loop, Climb the next-sibling-or-parent loop.  Null when
\* the walk is over.
RECURSIVE Descend(_, _, _, _, _, _)
RECURSIVE Climb(_, _, _, _, _)
Descend(t, r, acc, rej, node, res) ==
    IF res # "reject" /\ t.kids[node] # <<>>
    THEN With(t.kids[node][1], LAMBDA c :
             With(AcceptNode(t, r, acc, rej, c), LAMBDA fc :
                 IF fc = "accept" THEN c ELSE Descend(t, r, acc, rej, c, fc)))
    ELSE Climb(t, r, acc, rej, node)
Climb(t, r, acc, rej, temporary) ==
    IF temporary = Null \/ temporary = r THEN Null
    ELSE With(NextSibling(t, temporary), LAMBDA sibling :
             IF sibling = Null
             THEN With(Parent(t, temporary), LAMBDA up : Climb(t, r, acc, rej, up))
             ELSE With(AcceptNode(t, r, acc, rej, sibling), LAMBDA fs :
                     IF fs = "accept" THEN sibling
                     ELSE Descend(t, r, acc, rej, sibling, fs)))

NextNode(t, r, acc, rej, cur) == Descend(t, r, acc, rej, cur, "accept")

\* lines 246-248: while(node = walker.nextNode()) result.push(node)
RECURSIVE WalkAll(_, _, _, _, _, _)
WalkAll(t, r, acc, rej, cur, res) ==
    With(NextNode(t, r, acc, rej, cur), LAMBDA n :
        IF n = Null THEN res ELSE WalkAll(t, r, acc, rej, n, Append(res, n)))

\* lines 227-233: neither filter is a function
BySelectors(t, r, acc, rej) ==
    LET acceptedElems == QuerySelectorAll(t, r, acc)
        rejectedElems == QuerySelectorAll(t, r, rej)
    IN  Filter(acceptedElems,
               {e \in Range(acceptedElems) :
                    ~\E x \in Range(rejectedElems) : Contains(t, x, e)})

\* domCrawler(root, accept, reject), lines 215-249
DomCrawler(t, r, acc, rej) ==
    IF acc.kind # "function" /\ rej.kind # "function"
    THEN IF BadSelector(acc) \/ BadSelector(rej)
         THEN [status |-> "throw", value |-> <<>>]
         ELSE [status |-> "return", value |-> BySelectors(t, r, acc, rej)]
    ELSE IF ParseThrows(acc) \/ ParseThrows(rej)
         THEN [status |-> "throw", value |-> <<>>]
         ELSE [status |-> "return", value |-> WalkAll(t, r, acc, rej, r, <<>>)]

---------------------------------------------------------------------------
(* domCrawler, one walker step per step.                                   *)

MkTree(kids, type, tag, text) == [kids |-> kids, type |-> type, tag |-> tag, text |-> text]

\* spec.md 8: <div><span class="skip"><b>X</b></span>Y</div>
TreeSkip ==
    MkTree([n \in 0..4 |-> CASE n = 0 -> <<1, 4>> [] n = 1 -> <<2>> [] n = 2 -> <<3>>
                             [] OTHER -> <<>>],
           [n \in 0..4 |-> IF n \in {3, 4} THEN "text" ELSE "element"],
           [n \in 0..4 |-> CASE n = 0 -> "DIV" [] n = 1 -> "SPAN" [] n = 2 -> "B"
                             [] OTHER -> ""],
           [n \in 0..4 |-> IF n = 3 THEN <<"a">> ELSE IF n = 4 THEN <<"b">> ELSE <<>>])

\* <div><b><span>b</span>a</b><!-- --></div>
TreeWide ==
    MkTree([n \in 0..5 |-> CASE n = 0 -> <<2, 5>> [] n = 2 -> <<3, 1>> [] n = 3 -> <<4>>
                             [] OTHER -> <<>>],
           [n \in 0..5 |-> CASE n \in {1, 4} -> "text" [] n = 5 -> "comment"
                             [] OTHER -> "element"],
           [n \in 0..5 |-> CASE n = 0 -> "DIV" [] n = 2 -> "B" [] n = 3 -> "SPAN"
                             [] OTHER -> ""],
           [n \in 0..5 |-> IF n = 1 THEN <<"a">> ELSE IF n = 4 THEN <<"b">> ELSE <<>>])

CrawlTrees == {TreeSkip, TreeWide}

Elements(t) == {n \in Nodes(t) : t.type[n] = "element"}

Filters(t) ==
    {Fn(S) : S \in SUBSET Nodes(t)}
    \cup {Selector(S) : S \in SUBSET Elements(t)}
    \cup {Tags(T) : T \in SUBSET {"span", "B"}}
    \cup {Invalid}

CrawlInit ==
    /\ pc = "domCrawler"
    /\ tree \in CrawlTrees
    /\ root \in {n \in Nodes(tree) : Len(tree.kids[n]) > 0 /\ n < 3}
    /\ accept \in Filters(tree)
    /\ reject \in Filters(tree)
    /\ current = Null
    /\ nodes = <<>>

notCrawl == <<splitVars, rulesVars, passVars>>

\* lines 227-233: both filters are selectors
CrawlBySelectors ==
    /\ pc = "domCrawler"
    /\ accept.kind # "function" /\ reject.kind # "function"
    /\ \E o \in {DomCrawler(tree, root, accept, reject)} :
           pc' = o.status /\ nodes' = o.value
    /\ UNCHANGED <<tree, root, accept, reject, current, notCrawl>>

\* lines 235-246: parse the filters and create the walker
CrawlEnter ==
    /\ pc = "domCrawler"
    /\ accept.kind = "function" \/ reject.kind = "function"
    /\ IF ParseThrows(accept) \/ ParseThrows(reject)
       THEN pc' = "throw" /\ UNCHANGED current
       ELSE pc' = "walk" /\ current' = root
    /\ UNCHANGED <<tree, root, accept, reject, nodes, notCrawl>>

\* line 247, one iteration
WalkStep ==
    /\ pc = "walk"
    /\ \E n \in {NextNode(tree, root, accept, reject, current)} :
           /\ n # Null
           /\ current' = n
           /\ nodes' = Append(nodes, n)
    /\ UNCHANGED <<pc, tree, root, accept, reject, notCrawl>>

\* lines 247-248: nextNode returns null
WalkEnd ==
    /\ pc = "walk"
    /\ NextNode(tree, root, accept, reject, current) = Null
    /\ pc' = "return"
    /\ UNCHANGED <<crawlVars, notCrawl>>

CrawlNext == CrawlBySelectors \/ CrawlEnter \/ WalkStep \/ WalkEnd

---------------------------------------------------------------------------
(* domCrawler.getTextNodes, src/domCrawler.js:273-278.                     *)

TextNodesOf(t) == {n \in Nodes(t) : t.type[n] = "text"}

\* getTextNodes dropping its reject argument
GetTextNodesUnfiltered(t, r, rej) == DomCrawler(t, r, Fn(TextNodesOf(t)), Fn({}))

\* line 277: domCrawler(root, node => node.nodeType === Node.TEXT_NODE, reject)
GetTextNodes(t, r, rej) == DomCrawler(t, r, Fn(TextNodesOf(t)), rej)

\* line 275 / line 380: reject = ["SCRIPT", "STYLE"]
DefaultReject == Tags({"SCRIPT", "STYLE"})

---------------------------------------------------------------------------
(* ChildNode.replaceWith(...nodes) and the conversions around it.          *)

Digits == <<"0", "1", "2", "3", "4", "5", "6", "7", "8", "9">>

\* String(n) for 0 <= n < 100
NumberToString(n) ==
    IF n < 10 THEN <<Digits[n + 1]>> ELSE <<Digits[(n \div 10) + 1], Digits[(n % 10) + 1]>>

\* String({}) = "[object Object]"
ObjectToString ==
    <<"[", "o", "b", "j", "e", "c", "t", " ", "O", "b", "j", "e", "c", "t", "]">>

\* String(document.createElement("em")) = "[object HTMLElement]".  The
\* only nodes that reach a conversion are the <em> clones of a node
\* replacer: the wrapper's elements come in pairs, and a sequence of two or
\* more is not compared (line 359)
NodeToString ==
    <<"[", "o", "b", "j", "e", "c", "t", " ", "H", "T", "M", "L",
      "E", "l", "e", "m", "e", "n", "t", "]">>

\* the string a value is converted to where a DOMString is wanted
StringOf(frag) ==
    CASE frag.t = "string" -> frag.v
      [] frag.t = "number" -> NumberToString(frag.num)
      [] frag.t = "node"   -> NodeToString
      [] OTHER             -> ObjectToString

\* x == text for a string `text`: a number is compared as a number (the
\* empty string converts to 0), everything else as its string
LooseEquals(frag, text) ==
    IF frag.t = "number"
    THEN text = NumberToString(frag.num) \/ (frag.num = 0 /\ text = <<>>)
    ELSE StringOf(frag) = text

\* the tree with one more node; the new node is Cardinality(Nodes(t))
AddNode(t, type, tag, text, kids) ==
    LET n == Cardinality(Nodes(t))
    IN  [kids |-> [k \in Nodes(t) \cup {n} |-> IF k = n THEN kids ELSE t.kids[k]],
         type |-> [k \in Nodes(t) \cup {n} |-> IF k = n THEN type ELSE t.type[k]],
         tag  |-> [k \in Nodes(t) \cup {n} |-> IF k = n THEN tag ELSE t.tag[k]],
         text |-> [k \in Nodes(t) \cup {n} |-> IF k = n THEN text ELSE t.text[k]]]

\* The node a replaceWith argument becomes: a Node is used as it is (here
\* always a fresh element with one text child, the clone or element a
\* replacer or wrapper made), any other value becomes a Text node of its
\* string.  Gives the tree with the node added and the node.
Materialise(t, frag) ==
    IF frag.t = "node"
    THEN With(AddNode(t, "text", "", frag.v, <<>>), LAMBDA t1 :
             [tree |-> AddNode(t1, "element", frag.tag, <<>>, <<Cardinality(Nodes(t))>>),
              node |-> Cardinality(Nodes(t)) + 1])
    ELSE [tree |-> AddNode(t, "text", "", StringOf(frag), <<>>),
          node |-> Cardinality(Nodes(t))]

RECURSIVE MaterialiseAll(_, _, _)
MaterialiseAll(t, frags, made) ==
    IF frags = <<>> THEN [tree |-> t, made |-> made]
    ELSE With(Materialise(t, Head(frags)), LAMBDA m :
             MaterialiseAll(m.tree, Tail(frags), Append(made, m.node)))

\* replaceWith taking the node out and putting the new nodes at the end of
\* the parent's child list
ReplaceWithAtEnd(t, n, frags) ==
    LET p == Parent(t, n)
    IN  IF p = Null THEN t
        ELSE With(MaterialiseAll(t, frags, <<>>), LAMBDA m :
                 With(IndexOf(t.kids[p], n), LAMBDA k :
                     [m.tree EXCEPT !.kids[p] =
                         SubSeq(t.kids[p], 1, k - 1)
                            \o SubSeq(t.kids[p], k + 1, Len(t.kids[p])) \o m.made]))

\* textNode.replaceWith(...newNodes): nothing happens without a parent
ReplaceWith(t, n, frags) ==
    LET p == Parent(t, n)
    IN  IF p = Null THEN t
        ELSE With(MaterialiseAll(t, frags, <<>>), LAMBDA m :
                 With(IndexOf(t.kids[p], n), LAMBDA k :
                     [m.tree EXCEPT !.kids[p] =
                         SubSeq(t.kids[p], 1, k - 1) \o m.made
                            \o SubSeq(t.kids[p], k + 1, Len(t.kids[p]))]))

---------------------------------------------------------------------------
(* domCrawler.replaceTextNode, src/domCrawler.js:350-363.                  *)
(* Wrappers:  "none"  no function was passed                               *)
(*            "same"  splitted => splitted                                 *)
(*            "elems" every piece that is no string becomes two elements,  *)
(*                    <a>piece.text</a><span>[counter]</span>              *)
(*                    (index.html:96-118)                                  *)
(*            "undo"  () => [this.textContent]                             *)
(*            "throw" a function that throws                               *)
(* Callbacks: "none", "log" (records its arguments), "throw".              *)

Event(e, n, k, seq, changed) == [e |-> e, n |-> n, k |-> k, seq |-> seq, changed |-> changed]

\* the values of a fragment sequence, without the observation fields
Plain(frags) ==
    [k \in 1..Len(frags) |->
        [t |-> frags[k].t, v |-> frags[k].v, tag |-> frags[k].tag, num |-> frags[k].num]]

\* String(undefined)
UndefinedToString == <<"u", "n", "d", "e", "f", "i", "n", "e", "d">>

\* piece.text as the child of a new element: the objects the "args"
\* replacer returns carry the matched text, nothing else has the property
TextProperty(frag) ==
    IF frag.t = "object" /\ frag.args.argc > 0 THEN frag.args.m ELSE UndefinedToString

\* domCrawler.createElement(tagName, props, child) with one child that is
\* text; the attributes in props are not part of the model's trees
CreateElement(tagName, child) ==
    [t |-> "node", v |-> child, tag |-> tagName, num |-> 0, args |-> NoArgs,
     cov |-> <<>>, at |-> -1, by |-> 0]

\* `[${counter}]`
CounterLabel(counter) == <<"[">> \o NumberToString(counter) \o <<"]">>

\* index.html:99-108, the loop of the demo's wrapper: a string is pushed as
\* it is; any other piece raises the counter and pushes an <a> holding
\* piece.text and a <span> holding the counter
RECURSIVE WrapperLoop(_, _, _)
WrapperLoop(pieces, counter, res) ==
    IF pieces = <<>> THEN res
    ELSE IF IsString(Head(pieces))
    THEN WrapperLoop(Tail(pieces), counter, Append(res, Head(pieces)))
    ELSE WrapperLoop(Tail(pieces), counter + 1,
                     res \o <<CreateElement("A", TextProperty(Head(pieces))),
                              CreateElement("SPAN", CounterLabel(counter + 1))>>)

\* line 358: wrapper.call(textNode, splitted, textNode)
Wrap(w, frags, text) ==
    CASE w = "elems" -> WrapperLoop(frags, 0, <<>>)
      [] w = "undo"  -> <<Text(text)>>
      [] OTHER       -> frags

\* line 359 without the no-op detection
ChangedAlways(newNodes, text) == TRUE

\* line 359
Changed(newNodes, text) == Len(newNodes) # 1 \/ ~LooseEquals(newNodes[1], text)

\* replaceTextNode catching what the wrapper throws and putting the bare
\* fragments in
ReplaceTextNodeSwallowsWrapperError(t, n, rs, w, cb) ==
    With(StrSplitAndJoinByRules(t.text[n], rs), LAMBDA o :
      With(IF w # "none" THEN Wrap(w, o.value, t.text[n]) ELSE o.value, LAMBDA newNodes :
        LET changed == Changed(newNodes, t.text[n])
            evW == IF w # "none"
                   THEN <<Event("wrapper", n, w, Plain(o.value), FALSE)>> ELSE <<>>
            evM == IF changed
                   THEN <<Event("mutate", n, "", Plain(newNodes), TRUE)>> ELSE <<>>
            evC == IF cb # "none"
                   THEN <<Event("callback", n, cb, Plain(newNodes), changed)>> ELSE <<>>
        IN  IF o.status # "return"
            THEN [status |-> o.status, tree |-> t, events |-> <<>>]
            ELSE IF w = "throw"
            THEN [status |-> "return", tree |-> ReplaceWith(t, n, o.value), events |-> evW]
            ELSE [status |-> IF cb = "throw" THEN "throw" ELSE "return",
                  tree   |-> IF changed THEN ReplaceWith(t, n, newNodes) ELSE t,
                  events |-> evW \o evM \o evC]))

\* replaceTextNode calling the callback before it changes the tree
ReplaceTextNodeCallbackFirst(t, n, rs, w, cb) ==
    With(StrSplitAndJoinByRules(t.text[n], rs), LAMBDA o :
      With(IF w # "none" THEN Wrap(w, o.value, t.text[n]) ELSE o.value, LAMBDA newNodes :
        LET changed == Changed(newNodes, t.text[n])
            evW == IF w # "none"
                   THEN <<Event("wrapper", n, w, Plain(o.value), FALSE)>> ELSE <<>>
            evM == IF changed
                   THEN <<Event("mutate", n, "", Plain(newNodes), TRUE)>> ELSE <<>>
            evC == IF cb # "none"
                   THEN <<Event("callback", n, cb, Plain(newNodes), changed)>> ELSE <<>>
        IN  IF o.status # "return"
            THEN [status |-> o.status, tree |-> t, events |-> <<>>]
            ELSE IF w = "throw"
            THEN [status |-> "throw", tree |-> t, events |-> evW]
            ELSE [status |-> IF cb = "throw" THEN "throw" ELSE "return",
                  tree   |-> IF changed THEN ReplaceWith(t, n, newNodes) ELSE t,
                  events |-> evW \o evC \o evM]))

\* The whole function.  status is "return", "throw" or "hang"; events is
\* what happened, in order: the wrapper call, the tree change, the
\* callback call.
ReplaceTextNode(t, n, rs, w, cb) ==
    With(StrSplitAndJoinByRules(t.text[n], rs), LAMBDA o :
      With(IF w # "none" THEN Wrap(w, o.value, t.text[n]) ELSE o.value, LAMBDA newNodes :
        LET changed == Changed(newNodes, t.text[n])
            evW == IF w # "none"
                   THEN <<Event("wrapper", n, w, Plain(o.value), FALSE)>> ELSE <<>>
            evM == IF changed
                   THEN <<Event("mutate", n, "", Plain(newNodes), TRUE)>> ELSE <<>>
            evC == IF cb # "none"
                   THEN <<Event("callback", n, cb, Plain(newNodes), changed)>> ELSE <<>>
        IN  IF o.status # "return"
            THEN [status |-> o.status, tree |-> t, events |-> <<>>]
            ELSE IF w = "throw"
            THEN [status |-> "throw", tree |-> t, events |-> evW]
            ELSE [status |-> IF cb = "throw" THEN "throw" ELSE "return",
                  tree   |-> IF changed THEN ReplaceWith(t, n, newNodes) ELSE t,
                  events |-> evW \o evM \o evC]))

---------------------------------------------------------------------------
(* domCrawler.replaceTexts, src/domCrawler.js:377-394: an async function.  *)
(* pc is where the function stands: "loop" at the loop test of line 387,   *)
(* "awaitMicrotask" and "awaitTimer" suspended in the awaits of lines 389  *)
(* and 390, "body" at line 392, "done" when the promise is fulfilled,      *)
(* "failed" when it is rejected, "hung" inside a call that never returns.  *)

\* largest group size
MaxSize == 3

\* <div>ab<b>b</b><script>a</script>a<span>ba<!-- two text nodes --></span></div>
TreeFive ==
    MkTree([n \in 0..9 |-> CASE n = 0 -> <<1, 2, 4, 6, 7>> [] n = 2 -> <<3>>
                             [] n = 4 -> <<5>> [] n = 7 -> <<8, 9>> [] OTHER -> <<>>],
           [n \in 0..9 |-> IF n \in {0, 2, 4, 7} THEN "element" ELSE "text"],
           [n \in 0..9 |-> CASE n = 0 -> "DIV" [] n = 2 -> "B" [] n = 4 -> "SCRIPT"
                             [] n = 7 -> "SPAN" [] OTHER -> ""],
           [n \in 0..9 |-> CASE n = 1 -> <<"a", "b">> [] n = 3 -> <<"b">> [] n = 5 -> <<"a">>
                             [] n = 6 -> <<"a">> [] n = 8 -> <<"b", "a">> [] OTHER -> <<>>])

PassTrees == {TreeFive, TreeSkip}

PassRules ==
    {OneRule(Rule(ReA, Replacer("upper", <<>>), 0)),
     RulesArray(<<Rule(Literal(<<"a">>), Replacer("string", <<"b", "a">>), 0),
                  Rule(Literal(<<"b">>), Replacer("node", <<"a">>), 0)>>),
     RulesArray(<<Rule(ReOptAB, Replacer("args", <<>>), 0)>>),
     RulesArray(<<Rule(Literal(<<"a">>), Replacer("value", <<>>), 2)>>),
     RulesArray(<<Rule(ReAStar, Replacer("value", <<>>), 0)>>),
     RulesArray(<<Rule(Literal(<<"b">>), Replacer("throw", <<>>), 0)>>),
     RulesArray(<<Rule(ReA, Replacer("upper", <<>>), 0),
                  Rule(Literal(<<"b">>), Replacer("throw", <<>>), 0)>>),
     RulesArray(<<Rule(NotAPattern, Replacer("value", <<>>), 0)>>),
     RulesArray(<<>>)}

PassRejects == {DefaultReject, Fn({2}), Tags({"span"}), Invalid}

Wrappers == {"none", "same", "elems", "undo", "throw"}

Callbacks == {"none", "log", "throw"}

PassInit ==
    /\ pc = "replaceTexts"
    /\ tree \in PassTrees
    /\ root \in {n \in {0, 7} : n \in Nodes(tree)}
    /\ reject \in PassRejects
    /\ rules \in PassRules
    /\ wrapper \in Wrappers
    /\ callback \in Callbacks
    /\ delay \in {0, 1}
    /\ size \in 1..MaxSize
    /\ textNodes = <<>>
    /\ idx = 0
    /\ tree0 = tree
    /\ trace = <<>>

notPass == <<splitVars, splitted, ruleNo, accept, current, nodes>>
passArgs == <<root, reject, rules, wrapper, callback, delay, size, tree0>>

\* Suspends closing every group one node early
SuspendsOneEarly(k, d, sz) ==
    IF d > 0
    THEN IF k = 0 THEN "microtask"
         ELSE IF (k + 1) % sz = 0 THEN "timer"
         ELSE "none"
    ELSE "none"

\* lines 388-391: which await, if any, stands in front of node k (0-based)
Suspends(k, d, sz) ==
    IF d > 0
    THEN IF k = 0 THEN "microtask"
         ELSE IF k % sz = 0 THEN "timer"
         ELSE "none"
    ELSE "none"

\* line 386: const textNodes = domCrawler.getTextNodes(root, reject)
PassCall ==
    /\ pc = "replaceTexts"
    /\ \E o \in {GetTextNodes(tree, root, reject)} :
           /\ pc' = IF o.status = "return" THEN "loop" ELSE "failed"
           /\ textNodes' = o.value
    /\ UNCHANGED <<tree, idx, trace, passArgs, notPass>>

\* line 387: i < textNodes.length fails, the function returns
PassExit ==
    /\ pc = "loop"
    /\ idx >= Len(textNodes)
    /\ pc' = "done"
    /\ UNCHANGED <<tree, textNodes, idx, trace, passArgs, notPass>>

\* line 389: await Promise.resolve()
AwaitMicrotask ==
    /\ pc = "loop"
    /\ idx < Len(textNodes)
    /\ Suspends(idx, delay, size) = "microtask"
    /\ pc' = "awaitMicrotask"
    /\ trace' = Append(trace, Event("yield", idx, "microtask", <<>>, FALSE))
    /\ UNCHANGED <<tree, textNodes, idx, passArgs, notPass>>

\* line 390: await new Promise(resolve => setTimeout(resolve, delay))
AwaitTimer ==
    /\ pc = "loop"
    /\ idx < Len(textNodes)
    /\ Suspends(idx, delay, size) = "timer"
    /\ pc' = "awaitTimer"
    /\ trace' = Append(trace, Event("yield", idx, "timer", <<>>, FALSE))
    /\ UNCHANGED <<tree, textNodes, idx, passArgs, notPass>>

\* the host runs the continuation: the microtask queue, or the timer task
Resume ==
    /\ pc \in {"awaitMicrotask", "awaitTimer"}
    /\ pc' = "body"
    /\ UNCHANGED <<tree, textNodes, idx, trace, passArgs, notPass>>

\* line 392: domCrawler.replaceTextNode(textNodes[i], rules, wrapper, callback); ++i
ReplaceNode ==
    /\ \/ pc = "body"
       \/ pc = "loop" /\ idx < Len(textNodes) /\ Suspends(idx, delay, size) = "none"
    /\ \E o \in {ReplaceTextNode(tree, textNodes[idx + 1], rules, wrapper, callback)} :
           /\ tree' = o.tree
           /\ trace' = Append(trace, Event("node", textNodes[idx + 1], o.status, <<>>, FALSE))
                          \o o.events
           /\ pc' = CASE o.status = "return" -> "loop"
                      [] o.status = "throw"  -> "failed"
                      [] OTHER               -> "hung"
           /\ idx' = IF o.status = "return" THEN idx + 1 ELSE idx
    /\ UNCHANGED <<textNodes, passArgs, notPass>>

PassNext == PassCall \/ PassExit \/ AwaitMicrotask \/ AwaitTimer \/ Resume \/ ReplaceNode

---------------------------------------------------------------------------
(* Specifications: one per function, and all of them together.  The        *)
(* variables a function does not use keep these values.                    *)

SplitIdle ==
    /\ input = <<>> /\ str = <<>> /\ separator = NotAPattern
    /\ replacer = Replacer("value", <<>>) /\ result = <<>> /\ lastIndex = 0
    /\ i = 0 /\ calls = 0

RulesIdle == rules = RulesArray(<<>>) /\ splitted = <<>> /\ ruleNo = 0

CrawlIdle ==
    /\ tree = TreeSkip /\ root = 0 /\ accept = Fn({}) /\ reject = Fn({})
    /\ current = Null /\ nodes = <<>>

PassIdle ==
    /\ textNodes = <<>> /\ idx = 0 /\ delay = 0 /\ size = 1 /\ wrapper = "none"
    /\ callback = "none" /\ tree0 = TreeSkip /\ trace = <<>>

InitSplit == SplitInit /\ RulesIdle /\ CrawlIdle /\ PassIdle

InitRules ==
    /\ RulesInit
    /\ str = <<>> /\ separator = NotAPattern /\ replacer = Replacer("value", <<>>)
    /\ result = <<>> /\ lastIndex = 0
    /\ CrawlIdle /\ PassIdle

InitCrawl == CrawlInit /\ SplitIdle /\ RulesIdle /\ PassIdle

InitPass ==
    /\ PassInit
    /\ SplitIdle /\ splitted = <<>> /\ ruleNo = 0
    /\ accept = Fn({}) /\ current = Null /\ nodes = <<>>

SpecSplit == InitSplit /\ [][SplitNext]_vars
SpecRules == InitRules /\ [][RulesNext]_vars
SpecCrawl == InitCrawl /\ [][CrawlNext]_vars
SpecPass  == InitPass /\ [][PassNext]_vars

Init == InitSplit \/ InitRules \/ InitCrawl \/ InitPass
Next == SplitNext \/ RulesNext \/ CrawlNext \/ PassNext
Spec == Init /\ [][Next]_vars

---------------------------------------------------------------------------
(* Properties.                                                             *)

\* ----- what the properties are stated with

\* a filter holds of a node
Satisfies(t, f, n) ==
    CASE f.kind = "function" -> n \in f.set
      [] f.kind = "selector" -> t.type[n] = "element" /\ n \in f.set
      [] f.kind = "tags"     -> t.type[n] = "element"
                                /\ \E x \in f.tags : UpperTag(x) = t.tag[n]
      [] OTHER               -> FALSE

\* the ancestors of n strictly below r (empty when n is not below r)
RECURSIVE AncestorsBelow(_, _, _)
AncestorsBelow(t, r, n) ==
    LET p == Parent(t, n)
    IN  IF p = Null \/ p = r THEN {} ELSE {p} \cup AncestorsBelow(t, r, p)

RECURSIVE IsBelow(_, _, _)
IsBelow(t, r, n) ==
    LET p == Parent(t, n)
    IN  IF p = Null THEN FALSE ELSE p = r \/ IsBelow(t, r, p)

\* the nodes the contract of domCrawler asks for
Wanted(t, r, acc, rej) ==
    {n \in Nodes(t) :
        /\ IsBelow(t, r, n)
        /\ Satisfies(t, acc, n)
        /\ ~Satisfies(t, rej, n)
        /\ \A a \in AncestorsBelow(t, r, n) : ~Satisfies(t, rej, a)}

NoDuplicates(seq) == \A j, k \in 1..Len(seq) : seq[j] = seq[k] => j = k

\* C1: when domCrawler(root, accept, reject) has returned, a node is in the
\* returned array exactly if it is a proper descendant of root, accept
\* holds of it, reject does not, and reject holds of none of its ancestors
\* below root; every such node is there once.
C1_AcceptRejectContract ==
    pc = "return" =>
        /\ Range(nodes) = Wanted(tree, root, accept, reject)
        /\ NoDuplicates(nodes)

\* a walker run that returned a node whose parent was skipped (not accepted,
\* not rejected) and left out an accepted node under a rejected ancestor
C1_Witness ==
    /\ pc = "return"
    /\ accept.kind = "function"
    /\ \E n \in Range(nodes) :
          \E a \in AncestorsBelow(tree, root, n) : ~Satisfies(tree, accept, a)
    /\ \E n \in Nodes(tree) :
          /\ IsBelow(tree, root, n)
          /\ Satisfies(tree, accept, n) /\ ~Satisfies(tree, reject, n)
          /\ \E a \in AncestorsBelow(tree, root, n) : Satisfies(tree, reject, a)
          /\ n \notin Range(nodes)

\* how much of the input the regex loop has cut off: the scan position
ScanOffset == Len(input) - Len(str)

\* C2: every match the regex loop of strSplitAndJoin processes moves the
\* scan position in the original string strictly forward (so the loop ends).
C2_ScanOffsetStrictlyIncreases ==
    [][(pc = "exec" /\ pc' = "exec" /\ result' # result)
          => Len(input') - Len(str') > ScanOffset]_vars

\* C3: in strSplitAndJoinByRules no rule scans a fragment that an earlier
\* rule's replacer produced, and so no piece of text in the sequence is cut
\* out of a payload.
C3_PayloadsNeverRescanned ==
    /\ (pc = "rule" /\ ruleNo <= Len(rules.items) /\ i >= 0
           /\ ~Skipped(splitted[i + 1], rules.items[ruleNo]))
         => splitted[i + 1].by = 0
    /\ \A k \in 1..Len(splitted) : splitted[k].at = -1 => splitted[k].by = 0

\* C4: every call of the replacer for a regex match receives the match
\* text, every capture group, the offset of the match in the original input
\* and the original input.
C4_ReplacerGetsOriginalOffsetAndString ==
    (separator.type = "regexp" /\ replacer.kind = "args") =>
        \A k \in 1..Len(result) :
            result[k].at # -1 =>
                /\ result[k].args.m = result[k].cov
                /\ result[k].args.argc = 3 + (IF separator.group = <<>> THEN 0 ELSE 1)
                /\ result[k].args.offset = result[k].at
                /\ result[k].args.string = input

\* the matches of one global left-to-right scan of the whole string, as
\* String.prototype.replace with a g flag finds them: <<offset, length>>
RECURSIVE GlobalScan(_, _, _)
GlobalScan(re, s, from) ==
    LET hits == {k \in from..Len(s) : MatchAt(re, s, k).len >= 0}
    IN  IF from > Len(s) \/ hits = {} THEN <<>>
        ELSE LET k == CHOOSE x \in hits : \A y \in hits : x <= y
                 n == MatchAt(re, s, k).len
             IN  <<<<k, n>>>> \o GlobalScan(re, s, IF n = 0 THEN k + 1 ELSE k + n)

\* the texts a scan result stands for: between, match, between, ..., tail
RECURSIVE Interleaved(_, _, _)
Interleaved(s, ms, from) ==
    IF ms = <<>> THEN <<Tail0(s, from)>>
    ELSE <<Substring(s, from, ms[1][1]), Substring(s, ms[1][1], ms[1][1] + ms[1][2])>>
            \o Interleaved(s, Tail(ms), ms[1][1] + ms[1][2])

Covered(frags) == [k \in 1..Len(frags) |-> frags[k].cov]

\* C5: for a regex pattern the returned sequence is the one a single global
\* scan of the original string gives: the text between the matches and one
\* payload per match, every match decided in the whole original string.
C5_MatchesAreThoseOfOneGlobalScan ==
    (pc = "return" /\ separator.type = "regexp") =>
        /\ Covered(result) = Interleaved(input, GlobalScan(separator, input, 0), 0)
        /\ \A k \in 1..Len(result) : (result[k].at # -1) <=> (k % 2 = 0)

\* the offsets of the occurrences of p in s, left to right, none
\* overlapping an earlier one
RECURSIVE Occurrences(_, _, _)
Occurrences(s, p, from) ==
    LET hits == {k \in from..Len(s) : PrefixAt(s, k, p)}
    IN  IF from > Len(s) \/ hits = {} THEN <<>>
        ELSE LET k == CHOOSE x \in hits : \A y \in hits : x <= y
             IN  <<k>> \o Occurrences(s, p, IF p = <<>> THEN k + 1 ELSE k + Len(p))

\* the result is 2k+1 long for the k occurrences, holds the text between
\* them at the even (0-based) positions and, at the odd ones, what the
\* replacer returns for (p); the replacer was called k times
LiteralContract ==
    LET p   == separator.lit
        occ == Occurrences(input, p, 0)
        k   == Len(occ)
        a(j) == IF j = 0 THEN 0 ELSE occ[j] + Len(p)
        b(j) == IF j = k THEN Len(input) ELSE occ[j + 1]
    IN  /\ Len(result) = 2 * k + 1
        /\ calls = k
        /\ \A j \in 0..k : /\ IsString(result[2 * j + 1])
                           /\ result[2 * j + 1].at = -1
                           /\ result[2 * j + 1].v = Substring(input, a(j), b(j))
        /\ \A j \in 1..k :
              [result[2 * j] EXCEPT !.num = 0, !.at = 0]
                 = Payload(replacer, LiteralArgs(p), 0, p, 0)

ExampleHolds ==
    (input = ExampleStr /\ separator = Literal(<<",">>)
        /\ replacer = Replacer("string", <<"|">>))
      => [k \in 1..Len(result) |-> result[k].v]
            = <<<<"a">>, <<"|">>, <<"b">>, <<"|">>, <<>>, <<"|">>, <<"c">>>>

\* C6 as stated: for every literal pattern p the result has 2k+1 elements
\* for the k occurrences of p, text and payloads alternating.
C6_LiteralSplitEveryPattern ==
    (pc = "return" /\ separator.type = "string") => LiteralContract /\ ExampleHolds

\* C6, amended: for every non-empty literal pattern p the result has 2k+1
\* elements for the k non-overlapping occurrences of p found left to right:
\* the text between the occurrences (empty strings included) at the even
\* positions and one payload, the replacer called with p, at each odd one;
\* "a,b,,c" split on "," gives a | b | (empty) | c.
C6_LiteralSplitNonEmptyPattern ==
    (pc = "return" /\ separator.type = "string" /\ separator.lit # <<>>)
        => LiteralContract /\ ExampleHolds

\* two adjacent occurrences, with the empty string between them
C6_Witness ==
    /\ pc = "return"
    /\ separator.type = "string" /\ separator.lit # <<>>
    /\ Len(result) >= 5
    /\ \E j \in 2..(Len(result) - 1) : IsString(result[j]) /\ result[j].at = -1
                                         /\ result[j].v = <<>>

\* the pattern has a match somewhere in s
MatchesIn(pattern, s) ==
    CASE pattern.type = "regexp" -> \E k \in 0..Len(s) : MatchAt(pattern, s, k).len >= 0
      [] pattern.type = "string" -> \E k \in 0..Len(s) : PrefixAt(s, k, pattern.lit)
      [] OTHER                   -> FALSE

\* the call returned [s]
ReturnedInputAlone ==
    /\ pc = "return"
    /\ Len(splitted) = 1 /\ IsString(splitted[1]) /\ splitted[1].v = input

\* minLength lets the rule look at s
AppliesTo(rule, s) == rule.minLength = 0 \/ Len(s) >= rule.minLength

ProperPatterns ==
    \A r \in 1..Len(rules.items) :
        \/ rules.items[r].pattern.type = "regexp"
        \/ rules.items[r].pattern.type = "string" /\ rules.items[r].pattern.lit # <<>>

\* C7 as stated: strSplitAndJoinByRules(s, rules) returns [s] exactly if no
\* rule's pattern matches anywhere in s.
C7_UnchangedIffNoPatternMatches ==
    pc = "return" =>
        (ReturnedInputAlone
           <=> \A r \in 1..Len(rules.items) : ~MatchesIn(rules.items[r].pattern, input))

\* C7, amended: for rule lists whose patterns are RegExps or non-empty
\* strings, the call returns [s] exactly if no rule that minLength lets
\* look at s has a pattern that matches in s.
C7_UnchangedIffNoApplicableRuleMatches ==
    (pc \in {"return", "throw", "hang"} /\ ProperPatterns) =>
        (ReturnedInputAlone
           <=> \A r \in 1..Len(rules.items) :
                  ~(AppliesTo(rules.items[r], input)
                       /\ MatchesIn(rules.items[r].pattern, input)))

\* [s] came back although a pattern matches in s: minLength kept the rule off
C7_Witness ==
    /\ ReturnedInputAlone
    /\ ProperPatterns
    /\ \E r \in 1..Len(rules.items) :
          MatchesIn(rules.items[r].pattern, input) /\ ~AppliesTo(rules.items[r], input)

RECURSIVE Concat(_)
Concat(ss) == IF ss = <<>> THEN <<>> ELSE Head(ss) \o Concat(Tail(ss))

\* C8: with every payload replaced by the text its match covered, the
\* returned fragments concatenate to the original string.
C8_FragmentsCoverTheInput ==
    pc = "return" => Concat(Covered(splitted)) = input

\* ----- replaceTexts

NodeEvents == SelectSeq(trace, LAMBDA e : e.e = "node")

\* the nodes replaceTextNode was called on, in the order of the calls
Processed == [k \in 1..Len(NodeEvents) |-> NodeEvents[k].n]

\* how many nodes had been handed to replaceTextNode before event j
ProcessedBefore(j) == Len(SelectSeq(SubSeq(trace, 1, j - 1), LAMBDA e : e.e = "node"))

YieldPoints == {j \in 1..Len(trace) : trace[j].e = "yield"}

InOriginalOrder == Processed = SubSeq(textNodes, 1, Len(Processed))

\* C9 as stated: in paced mode the nodes are replaced in their original
\* order and the function is suspended only at group boundaries, after the
\* nodes numbered s, 2s, 3s, ...
C9_YieldsOnlyAtGroupBoundaries ==
    /\ InOriginalOrder
    /\ \A j \in YieldPoints :
          ProcessedBefore(j) > 0 /\ ProcessedBefore(j) % size = 0

\* C9, amended: in paced mode the nodes are replaced in their original
\* order; the function is suspended once before node 1, in
\* await Promise.resolve(), and after that only in the timer await at a
\* group boundary, after the nodes numbered s, 2s, 3s, ... while a further
\* node remains; a finished pass has been suspended at every one of these
\* points.  Without a delay it is never suspended.
C9_YieldsAtStartAndGroupBoundaries ==
    /\ InOriginalOrder
    /\ \A j \in YieldPoints :
          LET b == ProcessedBefore(j)
          IN  /\ delay > 0
              /\ trace[j].n = b
              /\ b < Len(textNodes)
              /\ \/ b = 0 /\ trace[j].k = "microtask"
                 \/ b > 0 /\ b % size = 0 /\ trace[j].k = "timer"
    /\ (pc = "done" /\ delay > 0) =>
          {trace[j].n : j \in YieldPoints}
             = {b \in 0..(Len(textNodes) - 1) : b % size = 0}
    /\ \A j, k \in YieldPoints : trace[j].n = trace[k].n => j = k

\* group size 2, five text nodes, all replaced: suspended before node 1,
\* after node 2 and after node 4
C9_Witness ==
    /\ pc = "done" /\ delay > 0 /\ size = 2
    /\ Len(textNodes) = 5
    /\ Len(Processed) = 5
    /\ {trace[j].n : j \in YieldPoints} = {0, 2, 4}

\* the text nodes under root outside every rejected subtree when
\* replaceTexts was called, in document order
SnapshotWanted ==
    Filter(PreOrder(tree0, root), Wanted(tree0, root, Fn(TextNodesOf(tree0)), reject))

IsPrefix(a, b) == Len(a) <= Len(b) /\ a = SubSeq(b, 1, Len(a))

\* C10: a replaceTexts pass calls replaceTextNode on the text nodes that
\* were under root and outside every rejected subtree when replaceTexts was
\* called, in document order, once each, and on no other node; a finished
\* pass has called it on every one of them.
C10_PassProcessesTheSnapshotOnce ==
    /\ IsPrefix(Processed, SnapshotWanted)
    /\ pc = "done" => Processed = SnapshotWanted

\* a finished pass over several text nodes that created text nodes and left
\* a text node in a rejected subtree alone
C10_Witness ==
    /\ pc = "done"
    /\ Len(Processed) >= 2
    /\ \E n \in TextNodesOf(tree) \ Nodes(tree0) : IsBelow(tree, root, n)
    /\ \E n \in TextNodesOf(tree0) : IsBelow(tree0, root, n) /\ n \notin Range(Processed)

\* ----- replaceTextNode, seen in the step of a pass that calls it

\* this step calls replaceTextNode
NodeStep == Len(trace') > Len(trace) /\ trace'[Len(trace) + 1].e = "node"

\* the node it is called on
StepNode == trace'[Len(trace) + 1].n

\* what the call did, in order
StepEvents == SubSeq(trace', Len(trace) + 2, Len(trace'))

StepKinds == [k \in 1..Len(StepEvents) |-> StepEvents[k].e]

\* the rules, or else the wrapper, throw for node n
RaisesBeforeReplacing(n) ==
    LET o == StrSplitAndJoinByRules(tree.text[n], rules)
    IN  o.status = "throw" \/ (o.status = "return" /\ wrapper = "throw")

\* the rules and the wrapper return for node n
FragmentsComputed(n) ==
    StrSplitAndJoinByRules(tree.text[n], rules).status = "return" /\ wrapper # "throw"

\* node n is where it was when the pass began, with the text it had
Untouched(t, n) ==
    /\ Parent(t, n) # Null
    /\ Parent(t, n) = Parent(tree0, n)
    /\ t.text[n] = tree0.text[n]

WasReplaced(n) == \E k \in 1..Len(trace) : trace[k].e = "mutate" /\ trace[k].n = n

\* C11: when the rules or the wrapper throw for the k-th text node of a
\* pass, the pass ends failed and stays failed, the tree is left as the
\* replacements of nodes 1..k-1 made it (each replaced node stays
\* replaced), node k is still in the tree with its original text, and every
\* node after k is where and what it was.
C11_ErrorFailsThePassAndKeepsTheTree ==
    [][/\ (NodeStep /\ RaisesBeforeReplacing(StepNode)) =>
            /\ pc' = "failed"
            /\ tree' = tree
            /\ StepNode = textNodes[idx + 1]
            /\ \A j \in (idx + 1)..Len(textNodes) : Untouched(tree', textNodes[j])
            /\ \A j \in 1..idx :
                  WasReplaced(textNodes[j]) => Parent(tree', textNodes[j]) = Null
       /\ pc = "failed" => (pc' = "failed" /\ tree' = tree)]_vars

\* a paced pass that replaced its first node and failed on a later one
C11_Witness ==
    /\ pc = "failed" /\ delay > 0
    /\ Len(Processed) >= 2
    /\ NodeEvents[Len(NodeEvents)].k = "throw"
    /\ WasReplaced(Processed[1])
    /\ ~WasReplaced(Processed[Len(Processed)])
    /\ Untouched(tree, Processed[Len(Processed)])
    /\ trace[Len(trace)].e \notin {"mutate", "callback"}

\* C12: whenever replaceTextNode gets as far as its fragments (rules and
\* wrapper return), what it does is, in this order: the wrapper call if a
\* wrapper was given, the tree change if there is one, the callback call if
\* a callback was given - once, also without a tree change; the callback
\* receives the new sequence, the original text node, and a flag that is
\* true exactly if this call changed the tree.
C12_WrapperThenChangeThenCallback ==
    [][(NodeStep /\ FragmentsComputed(StepNode)) =>
          LET W == IF wrapper # "none" THEN <<"wrapper">> ELSE <<>>
              M == IF tree' # tree THEN <<"mutate">> ELSE <<>>
              C == IF callback # "none" THEN <<"callback">> ELSE <<>>
              ev == StepEvents
          IN  /\ StepKinds = W \o M \o C
              /\ \A k \in 1..Len(ev) : ev[k].n = StepNode
              /\ \A k \in 1..Len(ev) :
                    ev[k].e = "callback" =>
                       /\ ev[k].changed = (tree' # tree)
                       /\ IF tree' # tree THEN ev[k].seq = ev[k - 1].seq
                                          ELSE Len(ev[k].seq) = 1]_vars

\* one node went wrapper, change, callback(true); another went wrapper,
\* callback(false) with no change
C12_Witness ==
    /\ \E k \in 1..(Len(trace) - 2) :
          /\ trace[k].e = "wrapper" /\ trace[k + 1].e = "mutate"
          /\ trace[k + 2].e = "callback" /\ trace[k + 2].changed
    /\ \E k \in 1..(Len(trace) - 1) :
          /\ trace[k].e = "wrapper"
          /\ trace[k + 1].e = "callback" /\ ~trace[k + 1].changed

\* the final sequence for node n, after rules and wrapper, is the node's
\* own text and nothing else
FinalIsOwnText(n) ==
    /\ FragmentsComputed(n)
    /\ LET o == StrSplitAndJoinByRules(tree.text[n], rules)
           f == IF wrapper = "none" THEN o.value ELSE Wrap(wrapper, o.value, tree.text[n])
       IN  Len(f) = 1 /\ f[1].t = "string" /\ f[1].v = tree.text[n]

\* C13: when the final sequence, after rules and wrapper, is one element
\* equal to the node's text, replaceTextNode leaves the tree exactly as it
\* is; so a node no rule matches costs no tree mutation, however often it
\* is processed.
C13_NoOpLeavesTheTreeAlone ==
    [][(NodeStep /\ FinalIsOwnText(StepNode)) =>
          /\ tree' = tree
          /\ \A k \in 1..Len(StepEvents) :
                /\ StepEvents[k].e # "mutate"
                /\ StepEvents[k].e = "callback" => ~StepEvents[k].changed]_vars

\* a finished pass over several nodes that changed nothing, although a
\* pattern matched in one of them
C13_Witness ==
    /\ pc = "done"
    /\ Len(Processed) >= 2
    /\ tree = tree0
    /\ callback = "log"
    /\ \E k \in 1..Len(Processed), r \in 1..Len(NormaliseRules(rules)) :
          MatchesIn(NormaliseRules(rules)[r].pattern, tree0.text[Processed[k]])

\* node m of tree t is what replaceWith makes of the value f: a node is put
\* in as it is, any other value as a text node of its string
Represents(t, m, f) ==
    IF f.t = "node"
    THEN /\ t.type[m] = "element"
         /\ t.tag[m] = f.tag
         /\ Len(t.kids[m]) = 1
         /\ t.type[t.kids[m][1]] = "text" /\ t.text[t.kids[m][1]] = f.v
    ELSE /\ t.type[m] = "text"
         /\ t.kids[m] = <<>>
         /\ t.text[m] = (CASE f.t = "string" -> f.v
                           [] f.t = "number" -> NumberToString(f.num)
                           [] OTHER          -> ObjectToString)

\* C14: when replaceTextNode changes the tree, the parent's child list
\* afterwards is the one before with the text node taken out and one new
\* node per element of the final sequence, in sequence order, in its
\* place; the siblings before and after are the same nodes in the same
\* order, and nothing else of the old tree changes.
C14_ReplacedInPlace ==
    [][(NodeStep /\ tree' # tree) =>
          LET n    == StepNode
              p    == Parent(tree, n)
              old  == tree.kids[p]
              now  == tree'.kids[p]
              k    == IndexOf(old, n)
              seq  == (CHOOSE e \in Range(StepEvents) : e.e = "mutate").seq
              new  == SubSeq(now, k, k + Len(seq) - 1)
          IN  /\ p # Null
              /\ \E e \in Range(StepEvents) : e.e = "mutate"
              /\ Len(now) = Len(old) - 1 + Len(seq)
              /\ SubSeq(now, 1, k - 1) = SubSeq(old, 1, k - 1)
              /\ SubSeq(now, k + Len(seq), Len(now)) = SubSeq(old, k + 1, Len(old))
              /\ NoDuplicates(new)
              /\ \A j \in 1..Len(seq) :
                    new[j] \notin Nodes(tree) /\ Represents(tree', new[j], seq[j])
              /\ Parent(tree', n) = Null
              /\ \A m \in Nodes(tree) :
                    /\ m # p => tree'.kids[m] = tree.kids[m]
                    /\ tree'.type[m] = tree.type[m]
                    /\ tree'.tag[m] = tree.tag[m]
                    /\ tree'.text[m] = tree.text[m]]_vars

\* the text node between <script> and <span> was replaced by three nodes or
\* more, which stand between <script> and <span>
C14_Witness ==
    /\ tree0 = TreeFive /\ root = 0
    /\ \E e \in Range(trace) : e.e = "mutate" /\ e.n = 6 /\ Len(e.seq) >= 3
    /\ LET ks == tree.kids[0]
       IN  /\ 4 \in Range(ks) /\ 7 \in Range(ks) /\ 6 \notin Range(ks)
           /\ IndexOf(ks, 7) - IndexOf(ks, 4) >= 4

\* ----- strSplitAndJoinByRules, continued

\* C15: a rule with minLength m leaves a string fragment shorter than m as
\* it is - the fragment is not split and the replacer is not called -
\* whether or not the pattern matches in it; what counts is the length of
\* the fragment at hand, not of the original string.
C15_ShortFragmentsAreLeftAlone ==
    [][(/\ pc = "rule" /\ ruleNo <= Len(rules.items) /\ i >= 0
        /\ IsString(splitted[i + 1])
        /\ rules.items[ruleNo].minLength # 0
        /\ Len(splitted[i + 1].v) < rules.items[ruleNo].minLength)
          => /\ splitted' = splitted
             /\ calls' = calls
             /\ pc' = pc]_vars

\* the last rule's pattern matches in a piece of the input that is shorter
\* than its minLength, the input itself is not: the piece is still whole
C15_Witness ==
    /\ pc = "return"
    /\ Len(rules.items) >= 2
    /\ LET rule == rules.items[Len(rules.items)]
       IN  /\ rule.minLength # 0
           /\ Len(input) >= rule.minLength
           /\ MatchesIn(rule.pattern, input)
           /\ \E k \in 1..Len(splitted) :
                 /\ IsString(splitted[k]) /\ splitted[k].at = -1
                 /\ Len(splitted[k].v) < rule.minLength
                 /\ MatchesIn(rule.pattern, splitted[k].v)

\* the payloads rule r put in, left to right
PayloadsOf(r) == SelectSeq(splitted, LAMBDA f : f.at # -1 /\ f.by = r)

\* C16: the replacer of a rule is called once per match of the rule, the
\* calls in left-to-right order of the matches: a replacer that returns its
\* invocation count leaves payloads 1, 2, 3, ... from left to right.
C16_CountsAscendLeftToRight ==
    pc = "return" =>
        \A r \in 1..Len(rules.items) :
            rules.items[r].replacer.kind = "count" =>
                \A k \in 1..Len(PayloadsOf(r)) : PayloadsOf(r)[k].num = k

=============================================================================
